---- MODULE Spec2Model ----
(***************************************************************************)
(* PressureAdvanceCamera: the rectangle extraction (retrieve_rect.py) and  *)
(* the line analysis (line_analyzer.py) as state machines.                 *)
(*                                                                         *)
(* Numbers.  Coordinates, areas and thickness values are integers.  The    *)
(* scores S1 and S2 are floats in the program; here they are fixed-point   *)
(* thousandths (Std returns floor(1000 * np.std)), which keeps the order   *)
(* of any two scores that the bounds below can produce.  A centroid is     *)
(* kept doubled (2 * cy) so that half-pixel centroids stay integers.       *)
(*                                                                         *)
(* None is the empty tuple << >> for every field that otherwise holds a    *)
(* tuple, and -1 for a column index.                                       *)
(***************************************************************************)
EXTENDS Integers, Sequences, FiniteSets, TLC

VARIABLES
    entry,                \* which entry point this run exercises
    \* ---- LineAnalyzer object (line_analyzer.py) ----
    image_arg,            \* the image handed to LineAnalyzer(image), as its shape
    image,                \* self.image, as its shape <<rows, cols, channels>>
    min_blob_area,        \* self.min_blob_area
    gap_penalty,          \* self.gap_penalty
    found,                \* what cv2.findContours returns for the cleaned mask
    mask,                 \* self.mask, as its shape <<rows, cols>>; << >> is None
    contours,             \* self.contours
    lines,                \* self.lines
    problematic_regions,  \* self.problematic_regions
    pc,                   \* position inside LineAnalyzer.__init__
    exc,                  \* exception raised out of the constructor; << >> is none
    smoothest,            \* last value returned by get_smoothest_lines
    top,                  \* the argument of that call; -1 before the first call
    \* ---- one call of RetrieveRect.process_image (retrieve_rect.py) ----
    rr_image,             \* the image argument, as its shape
    rr_pixels,            \* the image argument, as the values of the pixels followed
    rr_mask,              \* mask at those pixels, before cleaning; << >> before
    rr_contours,          \* what cv2.findContours returns for the cleaned mask
    rr_tried,             \* len(corners) after each cv2.approxPolyDP call made
    corners,              \* corners; << >> is None
    ordered_corners,      \* ordered_corners
    corrected_img,        \* the returned image, as its shape; << >> before
    rr_pc,                \* position inside process_image
    rr_exc,               \* exception raised out of process_image; << >> is none
    \* ---- the caller of the pipeline (run_tests.get_best_line) and its host ----
    seg_img,              \* the caller's input array, as what the libraries find in it
    numpy_int0,           \* whether the installed numpy still has np.int0 (numpy < 2.0)
    run,                  \* which pipeline run is under way; 0 outside the pipeline
    first_output,         \* what the first pipeline run returned or raised; << >> before
    \* ---- the Klipper module (pressure_advance_camera.py) and its subprocess ----
    kl_pc,                \* position inside cmd_SET_PRESSURE_ADVANCE_CAMERA
    proc,                 \* the subprocess: "none", "running", "exited", "terminated"
    returncode,           \* proc.returncode as <<code>>; << >> is None
    unwritten,            \* what the subprocess has yet to write to its stdout
    pipe,                 \* what it has written and nobody has read
    read_log,             \* everything os.read has returned, in read order
    proc_fd,              \* self.proc_fd; << >> is None
    fd_registered,        \* whether the reactor holds _process_output for the fd
    partial_output,       \* self.partial_output
    full_output,          \* self.full_output
    responded,            \* the texts passed to respond_info, in order
    pauses,               \* reactor.pause calls the polling loop has made
    complete,             \* complete
    best_line,            \* <<best_line>> once parsed; << >> before, or without a match
    gcode_run,            \* the scripts run after the analysis
    last_pattern_params,  \* self.last_pattern_params; << >> is {}
    pattern,              \* the ADVANCE values of the pattern drawn last, line by line
    kl_exc                \* error raised out of the command that ended last; << >> is none

laVars == <<image_arg, image, min_blob_area, gap_penalty, found, mask, contours, lines,
            problematic_regions, pc, exc, smoothest, top>>

rrVars == <<rr_image, rr_pixels, rr_mask, rr_contours, rr_tried, corners, ordered_corners, corrected_img,
            rr_pc, rr_exc>>

hostVars == <<seg_img, numpy_int0, run, first_output>>

patVars == <<last_pattern_params, pattern, kl_exc>>

klVars == <<kl_pc, proc, returncode, unwritten, pipe, read_log, proc_fd, fd_registered,
            partial_output,
            full_output, responded, pauses, complete, best_line, gcode_run, patVars>>

vars == <<entry, laVars, rrVars, hostVars, klVars>>

----------------------------------------------------------------------------
(* Bounds of the model *)

BaseThickness == 5  \* the thickness of an undisturbed column

MaxWidth == 4       \* widest cropped image of the scoring stages, in columns
MaxLines == 2       \* most lines in a scored line set
MaxCols == 2        \* widest cropped image of the grouping stages, in columns
MaxRow == 4         \* lowest row a blob reaches (rows 0..MaxRow)
MaxContours == 2    \* most contours cv2.findContours returns to the LineAnalyzer
MaxRectContours == 2  \* most contours cv2.findContours returns to RetrieveRect
MaxCoord == 2       \* corner coordinates are in 0..MaxCoord

(* Program constants *)

DefaultMinBlobArea == 100
DefaultGapPenalty == 1000
DefaultTop == 5
Border == 50
MinArea == 1000

----------------------------------------------------------------------------
(* Generic helpers *)

Min(a, b) == IF a < b THEN a ELSE b
Max(a, b) == IF a > b THEN a ELSE b
Abs(a) == IF a < 0 THEN -a ELSE a
SetMin(S) == CHOOSE m \in S : \A y \in S : m <= y
SetMax(S) == CHOOSE m \in S : \A y \in S : m >= y

RECURSIVE SumSeq(_)
SumSeq(s) == IF s = << >> THEN 0 ELSE Head(s) + SumSeq(Tail(s))

RECURSIVE ISqrtIn(_, _, _)
ISqrtIn(n, lo, hi) ==
    IF lo >= hi THEN lo
    ELSE LET mid == (lo + hi + 1) \div 2
         IN IF mid * mid <= n THEN ISqrtIn(n, mid, hi) ELSE ISqrtIn(n, lo, mid - 1)

\* floor(sqrt(n)) for 0 <= n < 2^31 (46340 = floor(sqrt(2^31 - 1)))
ISqrt(n) == ISqrtIn(n, 0, Min(n, 46340))

\* Python s[a:b] for 0 <= a, 0 <= b on a sequence (0-based, b exclusive, clipped)
Slice(s, a, b) == SubSeq(s, a + 1, Min(b, Len(s)))

\* no selection: every sample, the zeros included
Unmasked(t) == t

\* numpy boolean-mask selection t[t > 0] / the values equal to 0
Positive(t) == SelectSeq(t, LAMBDA v : v > 0)
CountZero(t) == Len(SelectSeq(t, LAMBDA v : v = 0))

\* the sample standard deviation (ddof=1) instead, in thousandths
StdSample(values) ==
    LET n == Len(values)
        s == SumSeq(values)
        q == SumSeq([i \in 1..n |-> values[i] * values[i]])
    IN IF n < 2 THEN 0 ELSE ISqrt((1000000 * (n * q - s * s) * n) \div (n - 1)) \div n

\* np.std(values), population standard deviation, in thousandths (floor).
\* std = sqrt(n * sum(v^2) - sum(v)^2) / n
Std(values) ==
    LET n == Len(values)
        s == SumSeq(values)
        q == SumSeq([i \in 1..n |-> values[i] * values[i]])
    IN ISqrt(1000000 * (n * q - s * s)) \div n

----------------------------------------------------------------------------
(* LineAnalyzer._determine_problematic_regions *)

\* values = [line[1][x] for line in self.lines], x a 0-based column
ColumnValues(ls, x) == [i \in 1..Len(ls) |-> ls[i][2][x + 1]]

\* the scan of one half: for x in range(x, stop), keeping (max_std, peak)
RECURSIVE PeakScan(_, _, _, _, _)
PeakScan(ls, x, stop, max_std, peak) ==
    IF x >= stop THEN peak
    ELSE LET values == ColumnValues(ls, x)
             column_std == IF values # << >> THEN Std(values) ELSE 0
         IN IF values # << >> /\ column_std > max_std
            THEN PeakScan(ls, x + 1, stop, column_std, x)
            ELSE PeakScan(ls, x + 1, stop, max_std, peak)

\* a region that is not clipped to its half
HalfRegionsUnclipped(ls, w, lo, hi) ==
    LET region_size == w \div 10
        peak == PeakScan(ls, lo, hi, 0, -1)
    IN IF peak = -1 THEN << >>
       ELSE << <<peak - region_size, peak + region_size>> >>

\* the regions one half appends: none when peak is None, else [(start, end)]
HalfRegions(ls, w, lo, hi) ==
    LET region_size == w \div 10
        peak == PeakScan(ls, lo, hi, 0, -1)
    IN IF peak = -1 THEN << >>
       ELSE << <<Max(lo, peak - region_size), Min(hi, peak + region_size)>> >>

Regions(ls, w) ==
    LET all == HalfRegions(ls, w, 0, w \div 2) \o HalfRegions(ls, w, w \div 2, w)
    IN Slice(all, 0, 2)

----------------------------------------------------------------------------
(* LineAnalyzer._compute_smoothness_metrics *)

\* a scorer that forgets the gap term
S1NoGaps(thickness, G) ==
    LET valid == Positive(thickness)
    IN IF Len(valid) > 1 THEN Std(valid) ELSE 0

\* s1 = std + gaps * self.gap_penalty, in thousandths
S1Of(thickness, G) ==
    LET valid == Positive(thickness)
        std == IF Len(valid) > 1 THEN Std(valid) ELSE 0
        gaps == CountZero(thickness)
    IN std + gaps * G * 1000

\* s2, in thousandths
RECURSIVE S2Of(_, _, _)
S2Of(thickness, regions, G) ==
    IF regions = << >> THEN 0
    ELSE LET start == Head(regions)[1]
             end == Head(regions)[2]
             section == Slice(thickness, start, end + 1)
             section_std == IF Positive(section) # << >> THEN Std(Positive(section)) ELSE 0
             section_gaps == CountZero(section)
         IN section_std + section_gaps * G * 1000 + S2Of(thickness, Tail(regions), G)

Scored(ls, regions, G) ==
    [i \in 1..Len(ls) |->
        <<ls[i][1], ls[i][2], S1Of(ls[i][2], G), S2Of(ls[i][2], regions, G)>>]

----------------------------------------------------------------------------
(* LineAnalyzer.get_smoothest_lines *)

\* enumerate(self.lines): pairs (0-based index, line)
Enumerate(ls) == [i \in 1..Len(ls) |-> <<i - 1, ls[i]>>]

\* the key of the commented-out sort: the score over the whole line
SortKeyS1(pair) == pair[2][3]

\* key=lambda x: x[1][3]
SortKey(pair) == pair[2][4]

\* sorted(..., key=SortKey): Python's sort is stable; insertion keeps equal keys
\* in their original order
RECURSIVE InsertByKey(_, _)
InsertByKey(sorted, p) ==
    IF sorted = << >> THEN <<p>>
    ELSE IF SortKey(p) < SortKey(Head(sorted))
         THEN <<p>> \o sorted
         ELSE <<Head(sorted)>> \o InsertByKey(Tail(sorted), p)

RECURSIVE SortedPairs(_)
SortedPairs(ps) ==
    IF ps = << >> THEN << >>
    ELSE InsertByKey(SortedPairs(SubSeq(ps, 1, Len(ps) - 1)), ps[Len(ps)])

\* (i+1, line_data[2], line_data[3])
RankRecord(pair) == <<pair[1] + 1, pair[2][3], pair[2][4]>>

SmoothestLines(ls, n) ==
    LET sorted_lines == Slice(SortedPairs(Enumerate(ls)), 0, n)
    IN [k \in 1..Len(sorted_lines) |-> RankRecord(sorted_lines[k])]

----------------------------------------------------------------------------
(* Contours.  A contour is the set of pixels <<x, y>> (cropped-image        *)
(* coordinates, 0-based) that cv2.drawContours fills for it.                *)

Rect(x0, x1, y0, y1) == {<<x, y>> : x \in x0..x1, y \in y0..y1}

Xs(cnt) == {p[1] : p \in cnt}
Ys(cnt) == {p[2] : p \in cnt}

----------------------------------------------------------------------------
(* cv2 on a contour.  The grouping stages are given rectangular blobs, for  *)
(* which the polygon through the boundary pixel centres has the area and    *)
(* moments below.                                                           *)

\* cv2.contourArea(c)
ContourArea(cnt) == (SetMax(Xs(cnt)) - SetMin(Xs(cnt))) * (SetMax(Ys(cnt)) - SetMin(Ys(cnt)))

\* cv2.moments(c): m00, and 2 * m01 (m01 = m00 * (ymin + ymax) / 2)
M00(cnt) == ContourArea(cnt)
M01x2(cnt) == M00(cnt) * (SetMin(Ys(cnt)) + SetMax(Ys(cnt)))

\* c[0][0][1]: the y of the contour's first point, its topmost row
FirstPointY(cnt) == SetMin(Ys(cnt))

\* 2 * cy, cy = M['m01']/M['m00'] if M['m00'] else c[0][0][1]
Cy2(cnt) == IF M00(cnt) # 0 THEN M01x2(cnt) \div M00(cnt) ELSE 2 * FirstPointY(cnt)

----------------------------------------------------------------------------
(* LineAnalyzer._process_image *)

\* no border cut away
NoCrop(n) == n

\* n rows or columns cut by [50:-50]
Crop(n) == Max(n - 2 * Border, 0)

\* a test that lets a colour image without transparency through
ColourChannels(shape) == shape[3] >= 3

\* img.shape[2] == 4
LaHasAlpha(shape) == shape[3] = 4

AlphaError == <<"ValueError", "Image must have an alpha channel">>
ShapeError == <<"IndexError", "tuple index out of range">>

\* cv2.cvtColor refuses an array without pixels
EmptyCropError == <<"cv2.error", "(-215:Assertion failed) !_src.empty() in function 'cvtColor'">>

----------------------------------------------------------------------------
(* LineAnalyzer._find_contours *)

\* cv2.contourArea(c) >= self.min_blob_area
Survives(cnt, min_area) == ContourArea(cnt) >= min_area

Surviving(cs, min_area) == SelectSeq(cs, LAMBDA c : Survives(c, min_area))

----------------------------------------------------------------------------
(* LineAnalyzer._group_contours_into_lines *)

\* sorted(zip(contours, centroids), key=lambda x: x[1]), stable
RECURSIVE InsertByCentroid(_, _)
InsertByCentroid(sorted, c) ==
    IF sorted = << >> THEN <<c>>
    ELSE IF Cy2(c) < Cy2(Head(sorted))
         THEN <<c>> \o sorted
         ELSE <<Head(sorted)>> \o InsertByCentroid(Tail(sorted), c)

RECURSIVE SortedByCentroid(_)
SortedByCentroid(cs) ==
    IF cs = << >> THEN << >>
    ELSE InsertByCentroid(SortedByCentroid(SubSeq(cs, 1, Len(cs) - 1)), cs[Len(cs)])

\* the threshold taken from the height of the uncropped image instead
GapOfFull(a2, b2, rows) == 25 * Abs(a2 - b2) > rows + 2 * Border

\* abs(cy - prev) > self.image.shape[0] * 0.02, on doubled centroids:
\* |a2 - b2| / 2 > rows / 50
NewLine(a2, b2, rows) == 25 * Abs(a2 - b2) > rows

\* the loop over sorted_contours, with its lines and current_line
RECURSIVE GroupLoop(_, _, _, _)
GroupLoop(rest, done, current_line, rows) ==
    IF rest = << >>
    THEN IF current_line # << >> THEN Append(done, current_line) ELSE done
    ELSE LET c == Head(rest)
         IN IF current_line # << >>
                /\ NewLine(Cy2(c), Cy2(current_line[Len(current_line)]), rows)
            THEN GroupLoop(Tail(rest), Append(done, current_line), <<c>>, rows)
            ELSE GroupLoop(Tail(rest), done, Append(current_line, c), rows)

\* the groups left in the order the loop made them, top line first
TopDown(s) == s

\* lines[::-1]
Reverse(s) == [i \in 1..Len(s) |-> s[Len(s) + 1 - i]]

\* self.lines after grouping: each line is the tuple <<its contours>>
GroupedLines(cs, rows) ==
    LET groups == Reverse(GroupLoop(SortedByCentroid(cs), << >>, << >>, rows))
    IN [i \in 1..Len(groups) |-> <<groups[i]>>]

----------------------------------------------------------------------------
(* LineAnalyzer._compute_thickness_profiles *)

\* combined_mask: the pixels of all contours of the line
CombinedMask(line_contours) == UNION {line_contours[k] : k \in 1..Len(line_contours)}

\* y_coords = np.where(column > 0)[0] for the 0-based column x
YCoords(combined_mask, x) == {p[2] : p \in {q \in combined_mask : q[1] = x}}

Ptp(ys) == SetMax(ys) - SetMin(ys)

\* the extent without the closing row
ExtentOnly(ys) == Ptp(ys)

\* y_coords.ptp() + 1
ColumnThickness(ys) == Ptp(ys) + 1

ThicknessProfile(line_contours, w) ==
    [x \in 1..w |->
        LET y_coords == YCoords(CombinedMask(line_contours), x - 1)
        IN IF y_coords # {} THEN ColumnThickness(y_coords) ELSE 0]

Profiled(ls, w) == [i \in 1..Len(ls) |-> <<ls[i][1], ThicknessProfile(ls[i][1], w)>>]

----------------------------------------------------------------------------
(* Inputs of the scoring stages: thickness profiles and the lines that      *)
(* carry them.                                                              *)

ConstWithGaps(w, c, gaps) == [x \in 1..w |-> IF x \in gaps THEN 0 ELSE c]

\* one column thicker by one and the column two to its right thinner by one
Ripple(w, c, i) ==
    [x \in 1..w |-> IF x = i THEN c + 1 ELSE IF x = i + 2 THEN c - 1 ELSE c]

\* every line owns at least one contour, so a profile has a nonzero column
Profiles(w) ==
    {ConstWithGaps(w, BaseThickness, g) : g \in (SUBSET (1..w)) \ {1..w}}
        \cup {Ripple(w, BaseThickness, i) : i \in 1..(w - 2)}

\* the blob of the columns lo..hi (1-based) of profile t, its top edge in row y0
RunBlob(t, lo, hi, y0) ==
    UNION {{<<x - 1, y>> : y \in y0..(y0 + t[x] - 1)} : x \in lo..hi}

\* the contours of a line with profile t: one blob per maximal run of nonzero columns
RECURSIVE RunContours(_, _, _, _)
RunContours(t, x, start, y0) ==
    IF x > Len(t)
    THEN IF start = 0 THEN << >> ELSE <<RunBlob(t, start, Len(t), y0)>>
    ELSE IF t[x] = 0
         THEN (IF start = 0 THEN << >> ELSE <<RunBlob(t, start, x - 1, y0)>>)
                  \o RunContours(t, x + 1, 0, y0)
         ELSE RunContours(t, x + 1, IF start = 0 THEN x ELSE start, y0)

\* line i of n (1-based; index 0 is the bottom line) sits 10 rows above line i - 1
LineTop(i, n) == (n - i) * 10

ProfileLines(ts) ==
    [i \in 1..Len(ts) |-> <<RunContours(ts[i], 1, 0, LineTop(i, Len(ts))), ts[i]>>]

RECURSIVE Flatten(_)
Flatten(ss) == IF ss = << >> THEN << >> ELSE Head(ss) \o Flatten(Tail(ss))

GapPenalties == {1, DefaultGapPenalty}
Tops == {1, DefaultTop}

----------------------------------------------------------------------------
(* The scoring stages of LineAnalyzer.__init__ and get_smoothest_lines      *)

ProcessImage ==
    /\ pc = "process_image"
    /\ IF Len(image) < 3
       THEN /\ exc' = ShapeError
            /\ pc' = "raised"
            /\ UNCHANGED <<image, mask>>
       ELSE IF LaHasAlpha(image)
            THEN IF Crop(image[1]) = 0 \/ Crop(image[2]) = 0
                 THEN /\ mask' = <<Crop(image[1]), Crop(image[2])>>
                      /\ exc' = EmptyCropError
                      /\ pc' = "raised"
                      /\ UNCHANGED image
                 ELSE /\ mask' = <<Crop(image[1]), Crop(image[2])>>
                      /\ image' = <<Crop(image[1]), Crop(image[2]), 3>>
                      /\ pc' = "find_contours"
                      /\ UNCHANGED exc
            ELSE /\ exc' = AlphaError
                 /\ pc' = "raised"
                 /\ UNCHANGED <<image, mask>>
    /\ UNCHANGED <<entry, klVars, hostVars, rrVars, image_arg, min_blob_area, gap_penalty, found, contours,
                   lines, problematic_regions, smoothest, top>>

FindContours ==
    /\ pc = "find_contours"
    /\ contours' = Surviving(found, min_blob_area)
    /\ pc' = "group"
    /\ UNCHANGED <<entry, klVars, hostVars, rrVars, image_arg, image, min_blob_area, gap_penalty, found,
                   mask, lines, problematic_regions, exc, smoothest, top>>

GroupContoursIntoLines ==
    /\ pc = "group"
    /\ lines' = IF contours = << >> THEN lines ELSE GroupedLines(contours, image[1])
    /\ pc' = "thickness"
    /\ UNCHANGED <<entry, klVars, hostVars, rrVars, image_arg, image, min_blob_area, gap_penalty, found,
                   mask, contours, problematic_regions, exc, smoothest, top>>

ComputeThicknessProfiles ==
    /\ pc = "thickness"
    /\ lines' = Profiled(lines, mask[2])
    /\ pc' = "regions"
    /\ UNCHANGED <<entry, klVars, hostVars, rrVars, image_arg, image, min_blob_area, gap_penalty, found,
                   mask, contours, problematic_regions, exc, smoothest, top>>

DetermineProblematicRegions ==
    /\ pc = "regions"
    /\ problematic_regions' = Regions(lines, mask[2])
    /\ pc' = "metrics"
    /\ UNCHANGED <<entry, klVars, hostVars, rrVars, image_arg, image, min_blob_area, gap_penalty, found, mask, contours,
                   lines, exc, smoothest, top>>

ComputeSmoothnessMetrics ==
    /\ pc = "metrics"
    /\ lines' = Scored(lines, problematic_regions, gap_penalty)
    /\ pc' = "ready"
    /\ UNCHANGED <<entry, klVars, hostVars, rrVars, image_arg, image, min_blob_area, gap_penalty, found, mask, contours,
                   problematic_regions, exc, smoothest, top>>

GetSmoothestLines ==
    /\ pc = "ready"
    /\ \E n \in Tops :
        /\ top' = n
        /\ smoothest' = SmoothestLines(lines, n)
    /\ UNCHANGED <<entry, klVars, hostVars, rrVars, image_arg, image, min_blob_area, gap_penalty, found, mask, contours,
                   lines, problematic_regions, pc, exc>>

\* no pipeline around the call: nothing of a caller is modelled
\* no SET_PRESSURE_ADVANCE_CAMERA command in this run
IdleKlipper ==
    /\ kl_pc = "idle"
    /\ proc = "none"
    /\ returncode = << >>
    /\ unwritten = << >>
    /\ pipe = << >>
    /\ read_log = << >>
    /\ proc_fd = << >>
    /\ fd_registered = FALSE
    /\ partial_output = << >>
    /\ full_output = << >>
    /\ responded = << >>
    /\ pauses = 0
    /\ complete = FALSE
    /\ best_line = << >>
    /\ gcode_run = << >>
    /\ last_pattern_params = << >>
    /\ pattern = << >>
    /\ kl_exc = << >>

NoCaller ==
    /\ seg_img = << >>
    /\ run = 0
    /\ first_output = << >>

\* no LineAnalyzer in this run
IdleLineAnalyzer ==
    /\ image_arg = << >>
    /\ image = << >>
    /\ min_blob_area = DefaultMinBlobArea
    /\ gap_penalty = DefaultGapPenalty
    /\ found = << >>
    /\ mask = << >>
    /\ contours = << >>
    /\ lines = << >>
    /\ problematic_regions = << >>
    /\ pc = "idle"
    /\ exc = << >>
    /\ smoothest = << >>
    /\ top = -1

\* no process_image call in this run
IdleRetrieveRect ==
    /\ rr_image = << >>
    /\ rr_pixels = << >>
    /\ rr_mask = << >>
    /\ rr_contours = << >>
    /\ rr_tried = << >>
    /\ corners = << >>
    /\ ordered_corners = << >>
    /\ corrected_img = << >>
    /\ rr_pc = "idle"
    /\ rr_exc = << >>

\* LineAnalyzer(image, min_blob_area=0, gap_penalty=G) after it has grouped and
\* profiled its lines, about to score them
ScoreState(w, ts, G) ==
    /\ entry = "LineAnalyzer"
    /\ image_arg = <<Border + 2 * Border, w + 2 * Border, 4>>
    /\ image = <<Border, w, 3>>
    /\ min_blob_area = 0
    /\ gap_penalty = G
    /\ lines = ProfileLines(ts)
    /\ contours = Flatten([i \in 1..Len(ts) |-> ProfileLines(ts)[i][1]])
    /\ found = contours
    /\ mask = <<Border, w>>
    /\ problematic_regions = << >>
    /\ pc = "regions"
    /\ exc = << >>
    /\ smoothest = << >>
    /\ top = -1
    /\ IdleRetrieveRect
    /\ NoCaller
    /\ IdleKlipper
    /\ numpy_int0 = TRUE

InitScore ==
    \E w \in 1..MaxWidth, n \in 0..MaxLines, G \in GapPenalties :
        \E ts \in [1..n -> Profiles(w)] : ScoreState(w, ts, G)

NextScore ==
    \/ DetermineProblematicRegions
    \/ ComputeSmoothnessMetrics
    \/ GetSmoothestLines

SpecScore == InitScore /\ [][NextScore]_vars

\* the thickness values a column is sampled with: a gap, or about BaseThickness
Samples == {0} \cup ((BaseThickness - 1)..(BaseThickness + 1))

\* the scoring stages on one line with an arbitrary thickness array
InitThickness ==
    \E w \in 1..MaxWidth, G \in GapPenalties :
        \E t \in [1..w -> Samples] : ScoreState(w, <<t>>, G)

SpecThickness == InitThickness /\ [][NextScore]_vars

----------------------------------------------------------------------------
(* RetrieveRect._detect_corners *)

\* the tolerances tried, in percent of the perimeter
Scales == <<1, 2, 3, 5, 7, 10>>

\* vertex counts cv2.approxPolyDP may answer with
VertexCounts == {3, 4, 5}

\* the polygon of n vertices cv2.approxPolyDP answers with for a contour whose
\* four-vertex approximation is quad
PolyOf(quad, n) == SubSeq(quad \o <<quad[1]>>, 1, n)

\* no area filter at all
AnyArea(c) == TRUE

\* cv2.contourArea(cnt) > min_area
ValidContour(c) == c.area > MinArea

ValidContours(cs) == SelectSeq(cs, ValidContour)

\* max(valid_contours, key=cv2.contourArea): the first contour of the largest area
LargestContour(cs) ==
    LET k == CHOOSE i \in 1..Len(cs) :
                /\ \A j \in 1..Len(cs) : cs[j].area <= cs[i].area
                /\ \A j \in 1..(i - 1) : cs[j].area < cs[i].area
    IN cs[k]

\* the approxPolyDP calls the loop makes when the answers would be `counts`:
\* it stops after the first answer of 4 vertices
RECURSIVE Tried(_)
Tried(counts) ==
    IF counts = << >> THEN << >>
    ELSE IF Head(counts) = 4 THEN <<4>> ELSE <<Head(counts)>> \o Tried(Tail(counts))

\* the loop ended without an answer of 4 vertices: the fallback runs
NeedsFallback(tried) == tried[Len(tried)] # 4

\* corners after the loop and the fallback
CornersOf(c, tried) ==
    LET last == PolyOf(c.quad, tried[Len(tried)])
    IN IF Len(last) # 4 THEN c.box ELSE last

\* np.int0 is an alias that numpy removed in 2.0: there the fallback raises
Int0Error == <<"AttributeError", "module 'numpy' has no attribute 'int0'">>

GeometryError == <<"ValueError", "Could not detect exactly 4 corners of rectangle">>

----------------------------------------------------------------------------
(* RetrieveRect._order_corners *)

Perms(n) == {p \in [1..n -> 1..n] : \A i, j \in 1..n : i # j => p[i] # p[j]}

\* np.argsort(keys).  numpy sorts an array of at most 16 elements by insertion,
\* which leaves equal keys in the order they came in
ArgSort(keys) ==
    CHOOSE p \in Perms(Len(keys)) :
        \A i \in 1..(Len(keys) - 1) :
            \/ keys[p[i]] < keys[p[i + 1]]
            \/ keys[p[i]] = keys[p[i + 1]] /\ p[i] < p[i + 1]

\* pts[np.argsort(pts[:, k]), :]
SortedBy(pts, k) ==
    LET p == ArgSort([i \in 1..Len(pts) |-> pts[i][k]])
    IN [i \in 1..Len(pts) |-> pts[p[i]]]

\* top_two = (top_left, top_right), bottom_two = (bottom_left, bottom_right)
Arrange(top_two, bottom_two) ==
    <<top_two[1], top_two[2], bottom_two[2], bottom_two[1]>>

OrderCorners(cs) ==
    LET sorted_by_y == SortedBy(cs, 2)
        top_two == SubSeq(sorted_by_y, 1, 2)
        bottom_two == SubSeq(sorted_by_y, 3, Len(cs))
    IN Arrange(SortedBy(top_two, 1), SortedBy(bottom_two, 1))

----------------------------------------------------------------------------
(* RetrieveRect._correct_perspective *)

\* int(np.sqrt((a[0] - b[0]) ** 2 + (a[1] - b[1]) ** 2))
IntDist(a, b) == ISqrt((a[1] - b[1]) * (a[1] - b[1]) + (a[2] - b[2]) * (a[2] - b[2]))

\* the shorter of the two edges instead
WidthMin(c) == Min(IntDist(c[1], c[2]), IntDist(c[4], c[3]))

\* max_width = max(int(width_a), int(width_b))
MaxWidthOf(c) == Max(IntDist(c[1], c[2]), IntDist(c[4], c[3]))

\* max_height = max(int(height_a), int(height_b))
MaxHeightOf(c) == Max(IntDist(c[1], c[4]), IntDist(c[2], c[3]))

----------------------------------------------------------------------------
(* RetrieveRect.process_image, step by step *)

\* img.shape[2] == 4
RrHasAlpha(shape) == shape[3] = 4

\* np.any(img > 0, axis=2) at one pixel, then .astype(np.uint8) * 255
MaskValue(pixel) == IF \E c \in 1..Len(pixel) : pixel[c] > 0 THEN 255 ELSE 0

RrMask ==
    /\ rr_pc = "mask"
    /\ IF Len(rr_image) < 3
       THEN rr_exc' = ShapeError /\ rr_pc' = "raised" /\ UNCHANGED rr_mask
       ELSE IF RrHasAlpha(rr_image)
            THEN /\ rr_mask' = [k \in 1..Len(rr_pixels) |-> MaskValue(rr_pixels[k])]
                 /\ rr_pc' = "detect" /\ UNCHANGED rr_exc
            ELSE rr_exc' = AlphaError /\ rr_pc' = "raised" /\ UNCHANGED rr_mask
    /\ UNCHANGED <<entry, klVars, hostVars, laVars, rr_image, rr_pixels, rr_contours, rr_tried, corners,
                   ordered_corners, corrected_img>>

RrDetectCorners ==
    /\ rr_pc = "detect"
    /\ IF rr_contours = << >> \/ ValidContours(rr_contours) = << >>
       THEN /\ corners' = << >> /\ UNCHANGED rr_tried
            /\ rr_pc' = "check" /\ UNCHANGED rr_exc
       ELSE \E counts \in [1..Len(Scales) -> VertexCounts] :
                /\ rr_tried' = Tried(counts)
                /\ IF NeedsFallback(Tried(counts)) /\ ~numpy_int0
                   THEN /\ rr_exc' = Int0Error
                        /\ rr_pc' = "raised"
                        /\ UNCHANGED corners
                   ELSE /\ corners' = CornersOf(LargestContour(ValidContours(rr_contours)),
                                                Tried(counts))
                        /\ rr_pc' = "check"
                        /\ UNCHANGED rr_exc
    /\ UNCHANGED <<entry, klVars, hostVars, laVars, rr_image, rr_pixels, rr_mask, rr_contours, ordered_corners, corrected_img>>

\* if corners is None or len(corners) != 4: raise
RrCheckCorners ==
    /\ rr_pc = "check"
    /\ IF corners = << >> \/ Len(corners) # 4
       THEN rr_exc' = GeometryError /\ rr_pc' = "raised"
       ELSE rr_pc' = "order" /\ UNCHANGED rr_exc
    /\ UNCHANGED <<entry, klVars, hostVars, laVars, rr_image, rr_pixels, rr_mask, rr_contours, rr_tried, corners,
                   ordered_corners, corrected_img>>

RrOrderCorners ==
    /\ rr_pc = "order"
    /\ ordered_corners' = OrderCorners(corners)
    /\ rr_pc' = "perspective"
    /\ UNCHANGED <<entry, klVars, hostVars, laVars, rr_image, rr_pixels, rr_mask, rr_contours, rr_tried, corners,
                   corrected_img, rr_exc>>

\* a warp that writes its result over the caller's array
RrCorrectPerspectiveInPlace ==
    /\ rr_pc = "perspective"
    /\ corrected_img' = <<MaxHeightOf(ordered_corners), MaxWidthOf(ordered_corners),
                          rr_image[3]>>
    /\ seg_img' = [seg_img EXCEPT !.contours = << >>]
    /\ rr_pc' = "done"
    /\ UNCHANGED <<entry, klVars, numpy_int0, run, first_output, laVars, rr_image, rr_pixels, rr_mask, rr_contours,
                   rr_tried, corners, ordered_corners, rr_exc>>

\* corrected_img = self._correct_perspective(img, ordered_corners); return corrected_img
RrCorrectPerspective ==
    /\ rr_pc = "perspective"
    /\ corrected_img' = <<MaxHeightOf(ordered_corners), MaxWidthOf(ordered_corners),
                          rr_image[3]>>
    /\ rr_pc' = "done"
    /\ UNCHANGED <<entry, klVars, hostVars, laVars, rr_image, rr_pixels, rr_mask, rr_contours, rr_tried, corners,
                   ordered_corners, rr_exc>>

----------------------------------------------------------------------------
(* process_image(image) from its start: the image and the contours in it *)

Points == (0..MaxCoord) \X (0..MaxCoord)

\* four different points, in any order
Quads == {q \in [1..4 -> Points] : \A i, j \in 1..4 : i # j => q[i] # q[j]}

\* the corners of the axis-aligned rectangle around q, as cv2.boxPoints lists them
BoxAround(q) ==
    LET xs == {q[i][1] : i \in 1..4}
        ys == {q[i][2] : i \in 1..4}
    IN << <<SetMin(xs), SetMax(ys)>>, <<SetMin(xs), SetMin(ys)>>,
          <<SetMax(xs), SetMin(ys)>>, <<SetMax(xs), SetMax(ys)>> >>

\* the outlines the detection runs are given: upright, on its tip, sheared
SceneQuads ==
    { << <<0, 0>>, <<2, 0>>, <<2, 2>>, <<0, 2>> >>,
      << <<1, 0>>, <<2, 1>>, <<1, 2>>, <<0, 1>> >>,
      << <<2, 1>>, <<2, 2>>, <<0, 1>>, <<0, 0>> >> }

RectAreas == {MinArea, MinArea + 1, 2 * MinArea}

RectContours(quads) == [area : RectAreas, quad : quads, box : {BoxAround(q) : q \in quads}]

SceneContours == {c \in RectContours(SceneQuads) : c.box = BoxAround(c.quad)}

RECURSIVE SeqsUpTo(_, _)
SeqsUpTo(S, n) == IF n = 0 THEN {<< >>} ELSE SeqsUpTo(S, n - 1) \cup [1..n -> S]

RetrieveRectState(shape, cs) ==
    /\ entry = "RetrieveRect"
    /\ rr_image = shape
    /\ rr_pixels = << >>
    /\ rr_mask = << >>
    /\ rr_contours = cs
    /\ rr_tried = << >>
    /\ corners = << >>
    /\ ordered_corners = << >>
    /\ corrected_img = << >>
    /\ rr_pc = "mask"
    /\ rr_exc = << >>
    /\ IdleLineAnalyzer
    /\ NoCaller
    /\ IdleKlipper
    /\ numpy_int0 \in BOOLEAN

\* channel counts of images without transparency: grey with a channel axis, BGR
ColourChannelCounts == {1, 3}

\* the camera frame, 1920 x 1080, turned by 90 degrees
PhotoRows == 1920
PhotoCols == 1080

InitRetrieveRect ==
    \/ \E cs \in SeqsUpTo(SceneContours, MaxRectContours) :
            RetrieveRectState(<<PhotoRows, PhotoCols, 4>>, cs)
    \/ \E ch \in ColourChannelCounts : RetrieveRectState(<<PhotoRows, PhotoCols, ch>>, << >>)
    \/ RetrieveRectState(<<PhotoRows, PhotoCols>>, << >>)

NextRetrieveRect ==
    \/ RrMask
    \/ RrDetectCorners
    \/ RrCheckCorners
    \/ RrOrderCorners
    \/ RrCorrectPerspective

\* process_image about to order the corners approxPolyDP gave it
InitCorners ==
    \E q \in Quads :
        /\ entry = "RetrieveRect"
        /\ rr_image = <<PhotoRows, PhotoCols, 4>>
        /\ rr_pixels = << >>
        /\ rr_mask = << >>
        /\ rr_contours = << [area |-> 2 * MinArea, quad |-> q, box |-> BoxAround(q)] >>
        /\ rr_tried = <<4>>
        /\ corners = q
        /\ ordered_corners = << >>
        /\ corrected_img = << >>
        /\ rr_pc = "order"
        /\ rr_exc = << >>
        /\ IdleLineAnalyzer
        /\ NoCaller
        /\ IdleKlipper
        /\ numpy_int0 \in BOOLEAN

NextCorners ==
    \/ RrOrderCorners
    \/ RrCorrectPerspective

SpecCorners == InitCorners /\ [][NextCorners]_vars

\* uint8 channel values: nothing, the least that is something, the most
Levels == {0, 1, 255}

\* process_image handed an array with `channels` channels, one pixel of it followed
InitMask ==
    \E channels \in {3, 4} :
        \E pixel \in [1..channels -> Levels] :
            /\ entry = "RetrieveRect"
            /\ rr_image = <<PhotoRows, PhotoCols, channels>>
            /\ rr_pixels = <<pixel>>
            /\ rr_mask = << >>
            /\ rr_contours = << >>
            /\ rr_tried = << >>
            /\ corners = << >>
            /\ ordered_corners = << >>
            /\ corrected_img = << >>
            /\ rr_pc = "mask"
            /\ rr_exc = << >>
            /\ IdleLineAnalyzer
            /\ NoCaller
            /\ IdleKlipper
            /\ numpy_int0 \in BOOLEAN

SpecMask == InitMask /\ [][RrMask]_vars

----------------------------------------------------------------------------
(* LineAnalyzer(image) from its start: the image and the blobs in it *)

CroppedRows == {Border, 4 * Border}
MinBlobAreas == {0, 1, DefaultMinBlobArea}

\* rectangular blobs <<x0, x1, y0, y1>> of a cropped image w columns wide
Blobs(w) ==
    {b \in (0..(w - 1)) \X (0..(w - 1)) \X (0..MaxRow) \X (0..MaxRow) :
        b[1] <= b[2] /\ b[3] <= b[4]}

\* two blobs are different connected components: a background pixel lies between
Apart(a, b) ==
    \/ a[2] + 1 < b[1]
    \/ b[2] + 1 < a[1]
    \/ a[4] + 1 < b[3]
    \/ b[4] + 1 < a[3]

\* the sequences of at most n blobs, pairwise apart
RECURSIVE BlobSeqs(_, _)
BlobSeqs(w, n) ==
    IF n = 0 THEN {<< >>}
    ELSE LET shorter == BlobSeqs(w, n - 1)
             longest == {s \in shorter : Len(s) = n - 1}
             more == {sb \in longest \X Blobs(w) :
                         \A k \in 1..Len(sb[1]) : Apart(sb[1][k], sb[2])}
         IN shorter \cup {Append(sb[1], sb[2]) : sb \in more}

BlobContours(bs) == [k \in 1..Len(bs) |-> Rect(bs[k][1], bs[k][2], bs[k][3], bs[k][4])]

\* LineAnalyzer(shape, min_blob_area=mba) at the start of __init__
AnalyzerState(shape, mba, cs) ==
    /\ entry = "LineAnalyzer"
    /\ image_arg = shape
    /\ image = shape
    /\ min_blob_area = mba
    /\ gap_penalty = DefaultGapPenalty
    /\ found = cs
    /\ mask = << >>
    /\ contours = << >>
    /\ lines = << >>
    /\ problematic_regions = << >>
    /\ pc = "process_image"
    /\ exc = << >>
    /\ smoothest = << >>
    /\ top = -1
    /\ IdleRetrieveRect
    /\ NoCaller
    /\ IdleKlipper
    /\ numpy_int0 = TRUE   \* the LineAnalyzer makes no use of np.int0

InitAnalyzer ==
    \E r \in CroppedRows, w \in 1..MaxCols, mba \in MinBlobAreas :
        \/ \E bs \in BlobSeqs(w, MaxContours) :
                AnalyzerState(<<r + 2 * Border, w + 2 * Border, 4>>, mba, BlobContours(bs))
        \/ \E ch \in ColourChannelCounts :
                AnalyzerState(<<r + 2 * Border, w + 2 * Border, ch>>, mba, << >>)
        \/ AnalyzerState(<<r + 2 * Border, w + 2 * Border>>, mba, << >>)

NextAnalyzer ==
    \/ ProcessImage
    \/ FindContours
    \/ GroupContoursIntoLines
    \/ ComputeThicknessProfiles
    \/ DetermineProblematicRegions
    \/ ComputeSmoothnessMetrics
    \/ GetSmoothestLines

SpecAnalyzer == InitAnalyzer /\ [][NextAnalyzer]_vars

----------------------------------------------------------------------------
(* A run is one call of RetrieveRect.process_image or one LineAnalyzer *)

Init == InitRetrieveRect \/ InitAnalyzer

Next == NextRetrieveRect \/ NextAnalyzer

Spec == Init /\ [][Next]_vars

\* the three lines of the spec's worked example
Scenario == << <<5, 5, 5, 5, 5>>, <<5, 5, 0, 5, 5>>, <<5, 6, 5, 4, 5>> >>

\* line sets of the example's size: each line flat, with one gap, or with a ripple
ScenarioProfiles == {p \in Profiles(Len(Scenario[1])) : CountZero(p) <= 1}

InitScenario ==
    \E ts \in [1..Len(Scenario) -> ScenarioProfiles], G \in GapPenalties :
        ScoreState(Len(Scenario[1]), ts, G)

SpecScenario == InitScenario /\ [][NextScore]_vars

----------------------------------------------------------------------------
(* The scoring stages on images wide enough for a region to reach beyond    *)
(* its peak column (region_size = int(w * 0.1) >= 1)                        *)

WideWidth == 10     \* narrowest cropped image of these runs, in columns
WideLines == 2      \* most lines in these runs

Bump(w, c, i) == [x \in 1..w |-> IF x = i THEN c + 1 ELSE c]

\* flat, one column thicker, or one column missing
WideProfiles(w) ==
    {ConstWithGaps(w, BaseThickness, {})}
        \cup {Bump(w, BaseThickness, i) : i \in 1..w}
        \cup {ConstWithGaps(w, BaseThickness, {i}) : i \in 1..w}

InitRegions ==
    \E w \in {WideWidth, WideWidth + 1}, n \in 0..WideLines :
        \E ts \in [1..n -> WideProfiles(w)] : ScoreState(w, ts, DefaultGapPenalty)

SpecRegions == InitRegions /\ [][NextScore]_vars

----------------------------------------------------------------------------
(* The pipeline as run_tests.get_best_line runs it, twice on one input:     *)
(* RetrieveRect(debug).process_image(seg_img), LineAnalyzer(rect_img),      *)
(* get_smoothest_lines().  The libraries are functions of the pixels: the   *)
(* input array is modelled by what they find in it.                         *)

\* the side of the photographed rectangle, in pixels
RectSide == 150

\* outlines of the rectangle in the photo: upright, wider at the bottom, on its tip,
\* and one no larger than the border margins
PipelineQuads ==
    { << <<0, 0>>, <<RectSide, 0>>, <<RectSide, RectSide>>, <<0, RectSide>> >>,
      << <<0, 0>>, <<2 * Border, 0>>, <<2 * Border, 2 * Border>>, <<0, 2 * Border>> >>,
      << <<RectSide, RectSide>>, <<20, 0>>, <<0, RectSide>>, <<RectSide - 20, 0>> >>,
      << <<RectSide, 0>>, <<2 * RectSide, RectSide>>, <<RectSide, 2 * RectSide>>,
         <<0, RectSide>> >> }

PipelineContours ==
    {[area |-> a, quad |-> q, box |-> BoxAround(q)] : a \in {MinArea, 20 * MinArea},
                                                      q \in PipelineQuads}

\* vertex counts of cv2.approxPolyDP at the six tolerances
PipelineAnswers ==
    { <<4, 4, 4, 4, 4, 4>>, <<5, 5, 4, 3, 3, 3>>, <<5, 5, 5, 5, 5, 3>> }

\* line blobs in the cropped rectified image: none, one line, two lines, a line
\* in two pieces above a whole one
PipelineBlobs ==
    { << >>,
      << Rect(0, 49, 0, 4) >>,
      << Rect(0, 49, 0, 4), Rect(0, 25, 10, 15) >>,
      << Rect(0, 20, 0, 5), Rect(24, 49, 0, 4), Rect(0, 49, 10, 14) >> }

Photos ==
    [shape : {<<PhotoRows, PhotoCols, 4>>, <<PhotoRows, PhotoCols, 3>>},
     contours : SeqsUpTo(PipelineContours, 1),
     answers : PipelineAnswers,
     blobs : PipelineBlobs]

\* retrieve_rect.process_image(seg_img): a new frame of locals
CallProcessImage(img) ==
    /\ rr_image' = img.shape
    /\ rr_pixels' = << >>
    /\ rr_mask' = << >>
    /\ rr_contours' = img.contours
    /\ rr_tried' = << >>
    /\ corners' = << >>
    /\ ordered_corners' = << >>
    /\ corrected_img' = << >>
    /\ rr_pc' = "mask"
    /\ rr_exc' = << >>

\* approxPolyDP answers for these pixels as it did before
SameAnswers ==
    /\ rr_tried' # << >> => rr_tried' = Tried(seg_img.answers)

PipelineDetectCorners == RrDetectCorners /\ SameAnswers

\* analyzer = LineAnalyzer(rect_img, debug=debug)
NewLineAnalyzer ==
    /\ run > 0
    /\ rr_pc = "done"
    /\ pc = "idle"
    /\ image_arg' = corrected_img
    /\ image' = corrected_img
    /\ found' = seg_img.blobs
    /\ pc' = "process_image"
    /\ UNCHANGED <<entry, klVars, hostVars, rrVars, min_blob_area, gap_penalty, mask, contours,
                   lines, problematic_regions, exc, smoothest, top>>

\* smoothest = analyzer.get_smoothest_lines()
PipelineGetSmoothestLines == top = -1 /\ GetSmoothestLines /\ top' = DefaultTop

\* get_best_line is through with the image: it has raised or has its ranking
Finished == rr_pc = "raised" \/ pc = "raised" \/ (pc = "ready" /\ top # -1)

Output ==
    IF rr_pc = "raised" THEN <<"raised", rr_exc>>
    ELSE IF pc = "raised" THEN <<"raised", exc>>
    ELSE <<"ranked", smoothest>>

\* the caller runs the pipeline on the same array once more: new objects, new locals
RunAgain ==
    /\ run = 1
    /\ Finished
    /\ first_output' = Output
    /\ run' = 2
    /\ CallProcessImage(seg_img)
    /\ image_arg' = << >>
    /\ image' = << >>
    /\ found' = << >>
    /\ mask' = << >>
    /\ contours' = << >>
    /\ lines' = << >>
    /\ problematic_regions' = << >>
    /\ pc' = "idle"
    /\ exc' = << >>
    /\ smoothest' = << >>
    /\ top' = -1
    /\ UNCHANGED <<entry, klVars, seg_img, numpy_int0, min_blob_area, gap_penalty>>

InitPipeline ==
    \E img \in Photos, int0 \in BOOLEAN :
        /\ entry = "pipeline"
        /\ seg_img = img
        /\ numpy_int0 = int0
        /\ run = 1
        /\ first_output = << >>
        /\ rr_image = img.shape
        /\ rr_pixels = << >>
        /\ rr_mask = << >>
        /\ rr_contours = img.contours
        /\ rr_tried = << >>
        /\ corners = << >>
        /\ ordered_corners = << >>
        /\ corrected_img = << >>
        /\ rr_pc = "mask"
        /\ rr_exc = << >>
        /\ IdleLineAnalyzer
        /\ IdleKlipper

NextPipeline ==
    \/ RrMask
    \/ PipelineDetectCorners
    \/ RrCheckCorners
    \/ RrOrderCorners
    \/ RrCorrectPerspective
    \/ NewLineAnalyzer
    \/ ProcessImage
    \/ FindContours
    \/ GroupContoursIntoLines
    \/ ComputeThicknessProfiles
    \/ DetermineProblematicRegions
    \/ ComputeSmoothnessMetrics
    \/ PipelineGetSmoothestLines
    \/ RunAgain

SpecPipeline == InitPipeline /\ [][NextPipeline]_vars

----------------------------------------------------------------------------
(* pressure_advance_camera.py: SET_PRESSURE_ADVANCE_CAMERA and its subprocess.  *)
(* A text is a sequence of tokens: the literal "Best line:", a blank, a digit,  *)
(* a newline, or "x" for any other run of characters without a newline.        *)

MaxPauses == 3      \* reactor.pause calls that fit into the timeout
MaxOutput == 12     \* longest full_output followed, in tokens

Digits == {"0", "1", "2"}
Whitespace == {" ", "\n"}

DigitValue(d) == CASE d = "0" -> 0 [] d = "1" -> 1 [] d = "2" -> 2

\* int(digits)
RECURSIVE IntOf(_)
IntOf(digits) ==
    IF digits = << >> THEN 0
    ELSE 10 * IntOf(SubSeq(digits, 1, Len(digits) - 1)) + DigitValue(digits[Len(digits)])

\* the first index >= i of text that holds no token of S (Len(text) + 1 if none)
RECURSIVE SkipAll(_, _, _)
SkipAll(text, i, S) ==
    IF i <= Len(text) /\ text[i] \in S THEN SkipAll(text, i + 1, S) ELSE i

\* r"Best line:\s*(\d+)" matched at index i of text: group 1, or << >> without a match
MatchAt(text, i) ==
    IF text[i] # "Best line:" THEN << >>
    ELSE LET from == SkipAll(text, i + 1, Whitespace)
         IN SubSeq(text, from, SkipAll(text, from, Digits) - 1)

\* re.search(r"Best line:\s*(\d+)", text): group 1 of the leftmost match, or << >>
Search(text) ==
    LET hits == {i \in 1..Len(text) : MatchAt(text, i) # << >>}
    IN IF hits = {} THEN << >> ELSE MatchAt(text, SetMin(hits))

\* the cut before the last newline instead of after it
RFind(data) == SetMax({0} \cup {i \in 1..Len(data) : data[i] = "\n"}) - 1

\* data.rfind("\n") + 1
Split(data) == SetMax({0} \cup {i \in 1..Len(data) : data[i] = "\n"})

\* what pa_calibrate.py prints: a ranking and its best line, or a failure
Scripts ==
    { <<"x", "\n", "Best line:", " ", "1", "2", "\n">>,
      <<"Best line:", " ", "2", "\n", "x">>,
      <<"x", "\n">> }

ExitCodes == {0, 1}

\* -SIGTERM, the return code of a process stopped by proc.terminate()
Terminated == -15

\* the subprocess writes the next part of its output
ProcWrite ==
    /\ proc = "running"
    /\ \E k \in 1..Len(unwritten) :
        /\ pipe' = pipe \o SubSeq(unwritten, 1, k)
        /\ unwritten' = SubSeq(unwritten, k + 1, Len(unwritten))
    /\ UNCHANGED <<entry, laVars, rrVars, hostVars, fd_registered, patVars, kl_pc, proc, returncode, read_log,
                   proc_fd, partial_output, full_output, responded, pauses, complete,
                   best_line, gcode_run>>

\* the subprocess ends; its end of the pipe is closed
ProcExit ==
    /\ proc = "running"
    /\ unwritten = << >>
    /\ proc' = "exited"
    /\ \E code \in ExitCodes : returncode' = <<code>>
    /\ UNCHANGED <<entry, laVars, rrVars, hostVars, fd_registered, patVars, kl_pc, unwritten, pipe, read_log,
                   proc_fd, partial_output, full_output, responded, pauses, complete,
                   best_line, gcode_run>>

RunningText == <<"Running:">>
PopenError == <<"gcmd.error", "Failed to execute">>

\* subprocess.Popen(...), which may fail, up to the start of the polling loop
Launch ==
    /\ kl_pc = "launch"
    /\ responded' = Append(responded, RunningText)
    /\ \/ /\ proc' = "running"
          /\ proc_fd' = <<"proc.stdout">>
          /\ fd_registered' = TRUE
          /\ full_output' = << >>
          /\ partial_output' = << >>
          /\ complete' = FALSE
          /\ kl_pc' = "loop"
          /\ UNCHANGED kl_exc
       \/ /\ kl_exc' = PopenError
          /\ kl_pc' = "done"
          /\ UNCHANGED <<proc, proc_fd, fd_registered, full_output, partial_output, complete>>
    /\ UNCHANGED <<entry, laVars, rrVars, hostVars, last_pattern_params, pattern, returncode,
                   unwritten, pipe, read_log, pauses, best_line, gcode_run>>

\* while eventtime < endtime: eventtime = reactor.pause(eventtime + 0.05)
LoopTest ==
    /\ kl_pc = "loop"
    /\ IF pauses < MaxPauses
       THEN kl_pc' = "paused" /\ pauses' = pauses + 1
       ELSE kl_pc' = "cleanup" /\ UNCHANGED pauses
    /\ UNCHANGED <<entry, laVars, rrVars, hostVars, fd_registered, patVars, proc, returncode, unwritten, pipe,
                   read_log, proc_fd, partial_output, full_output, responded, complete,
                   best_line, gcode_run>>

\* the fd is readable: it holds data, or its other end is closed
Readable == pipe # << >> \/ proc \in {"exited", "terminated"}

\* _process_output, called by the reactor while the command is paused; os.read
\* returns what the pipe holds (less than 4096 bytes), nothing at end of file
ProcessOutput ==
    /\ kl_pc = "paused"
    /\ fd_registered
    /\ proc_fd # << >>
    /\ Readable
    /\ Len(full_output) + Len(partial_output) + Len(pipe) <= MaxOutput
    /\ LET data == partial_output \o pipe
           split == Split(data)
       IN /\ read_log' = read_log \o pipe
          /\ pipe' = << >>
          /\ full_output' = full_output \o data
          /\ IF \A i \in 1..Len(data) : data[i] # "\n"
             THEN partial_output' = data /\ UNCHANGED responded
             ELSE IF data[Len(data)] # "\n"
                  THEN /\ partial_output' = SubSeq(data, split + 1, Len(data))
                       /\ responded' = Append(responded, SubSeq(data, 1, split))
                  ELSE /\ partial_output' = << >>
                       /\ responded' = Append(responded, data)
    /\ UNCHANGED <<entry, laVars, rrVars, hostVars, fd_registered, patVars, kl_pc, proc, returncode, unwritten,
                   proc_fd, pauses, complete, best_line, gcode_run>>

\* reactor.pause returns; if proc.poll() is not None: complete = True; break
Poll ==
    /\ kl_pc = "paused"
    /\ IF proc = "exited"
       THEN complete' = TRUE /\ kl_pc' = "cleanup"
       ELSE kl_pc' = "loop" /\ UNCHANGED complete
    /\ UNCHANGED <<entry, laVars, rrVars, hostVars, fd_registered, patVars, proc, returncode, unwritten, pipe,
                   read_log, proc_fd, partial_output, full_output, responded, pauses,
                   best_line, gcode_run>>

TimedOutText == <<"Pressure advance calibration timed out">>
FailedText == <<"Pressure advance calibration failed">>
NotFoundText == <<"Could not find best line number in output">>

\* a check that lets any process through that ended in time
TimedOut == ~complete

\* not complete or proc.returncode != 0
Failed == ~complete \/ returncode # <<0>>

\* the clean-up after the loop and the check for success
CleanUp ==
    /\ kl_pc = "cleanup"
    /\ IF ~complete /\ proc = "running"
       THEN proc' = "terminated" /\ returncode' = <<Terminated>>
       ELSE UNCHANGED <<proc, returncode>>
    /\ partial_output' = << >>
    /\ fd_registered' = FALSE
    /\ proc_fd' = << >>
    /\ LET timed_out == IF complete THEN << >> ELSE <<TimedOutText>>
           flushed == IF partial_output # << >> THEN <<partial_output>> ELSE << >>
       IN /\ responded' = responded \o timed_out \o flushed
                            \o (IF Failed THEN <<FailedText>> ELSE << >>)
          /\ kl_pc' = IF Failed THEN "done" ELSE "parse"
    /\ UNCHANGED <<entry, laVars, rrVars, hostVars, patVars, unwritten, pipe, read_log, full_output,
                   pauses, complete, best_line, gcode_run>>

\* round(a / b) for b > 0: what the format {:.6f} leaves of a quotient
RoundDiv(a, b) == (2 * a + b) \div (2 * b)

\* pa_step = (pa_end - pa_start) / (pattern_lines - 1)
\* best_pa = pa_start + ((best_line - 1) * pa_step), as printed with {best_pa:.6f}
BestPa(params, line) ==
    params.pa_start
        + RoundDiv((line - 1) * (params.pa_end - params.pa_start), params.num_lines - 1)

\* match = re.search(...) and what follows it; run_script_from_command may raise
ParseOutput ==
    /\ kl_pc = "parse"
    /\ kl_pc' = "done"
    /\ LET group == Search(full_output)
           best_pa == BestPa(last_pattern_params, IntOf(group))
       IN IF group # << >>
          THEN /\ best_line' = <<IntOf(group)>>
               /\ gcode_run' = Append(gcode_run, <<"SET_PRESSURE_ADVANCE", best_pa>>)
               /\ \E outcome \in {"Pressure advance successfully updated",
                                  "Error setting pressure advance"} :
                    responded' = responded \o
                        << <<"Best line:", IntOf(group)>>,
                           <<"Best pressure advance value:", best_pa>>,
                           <<"Setting pressure advance to", best_pa>>,
                           <<outcome>> >>
          ELSE /\ responded' = Append(responded, NotFoundText)
               /\ UNCHANGED <<best_line, gcode_run>>
    /\ UNCHANGED <<entry, laVars, rrVars, hostVars, fd_registered, patVars, proc, returncode, unwritten, pipe,
                   read_log, proc_fd, partial_output, full_output, pauses, complete>>

----------------------------------------------------------------------------
(* DRAW_PRESSURE_ADVANCE_PATTERN and the start of SET_PRESSURE_ADVANCE_CAMERA.   *)
(* A pressure advance value is an integer number of millionths, the unit of     *)
(* the {:.6f} it is printed with.                                               *)

\* pa_start: 0.0, pa_end: 0.1, pa_step: 0.005 of the configuration
DefaultPaStart == 0
DefaultPaEnd == 100000
DefaultPaStep == 5000

\* num_lines = int((pa_end - pa_start) / pa_step) + 1
NumLines(pa_start, pa_end, pa_step) == (pa_end - pa_start) \div pa_step + 1

\* current_pa = pa_start + (i * pa_step) for i in range(num_lines)
LinesDrawn(pa_start, pa_step, num_lines) ==
    [k \in 1..num_lines |-> pa_start + (k - 1) * pa_step]

SavedParams(pa_start, pa_end, pa_step) ==
    [pa_start |-> pa_start, pa_end |-> pa_end,
     num_lines |-> NumLines(pa_start, pa_end, pa_step)]

StartEndError == <<"gcmd.error", "PA_START must be less than PA_END">>
StepError == <<"gcmd.error", "PA_STEP must be positive">>
LinesError == <<"AssertionError", "Not enough lines for a meaningful test">>
NumLinesError == <<"gcmd.error", "NUM_LINES must be positive">>
ParamsError == <<"KeyError", "num_lines">>

\* the PA_START, PA_END and PA_STEP a pattern is asked for with
PaStarts == {DefaultPaStart}
PaEnds == {0, DefaultPaEnd}
PaSteps == {0, DefaultPaStep, 6 * DefaultPaStep, 40 * DefaultPaStep}

\* cmd_DRAW_PRESSURE_ADVANCE_PATTERN; WIDTH and LINE_SPACING are left at their
\* configured values, which pass the validation
DrawPattern ==
    /\ kl_pc = "draw"
    /\ kl_pc' = "camera"
    /\ \E pa_start \in PaStarts, pa_end \in PaEnds, pa_step \in PaSteps :
        IF pa_start >= pa_end
        THEN kl_exc' = StartEndError /\ UNCHANGED <<last_pattern_params, pattern, responded>>
        ELSE IF pa_step <= 0
        THEN kl_exc' = StepError /\ UNCHANGED <<last_pattern_params, pattern, responded>>
        ELSE IF NumLines(pa_start, pa_end, pa_step) < 2
        THEN kl_exc' = LinesError /\ UNCHANGED <<last_pattern_params, pattern, responded>>
        ELSE /\ last_pattern_params' = SavedParams(pa_start, pa_end, pa_step)
             /\ pattern' = LinesDrawn(pa_start, pa_step, NumLines(pa_start, pa_end, pa_step))
             /\ responded' = << <<"Generating pressure advance test pattern with",
                                    NumLines(pa_start, pa_end, pa_step)>>,
                                 <<"Pattern dimensions:">>,
                                 <<"Pressure advance test pattern completed">> >>
             /\ kl_exc' = << >>
    /\ UNCHANGED <<entry, laVars, rrVars, hostVars, fd_registered, proc, returncode, unwritten, pipe,
                   read_log, proc_fd, partial_output, full_output, pauses, complete,
                   best_line, gcode_run>>

\* the NUM_LINES a SET_PRESSURE_ADVANCE_CAMERA command may carry; << >> is none
NumLinesArgs == {<< >>, <<0>>, <<4>>}

MovedText == <<"Moved to photo position">>
CameraText == <<"Camera position">>

\* cmd_SET_PRESSURE_ADVANCE_CAMERA up to the moves to the photo position
StartCamera ==
    /\ kl_pc = "camera"
    /\ \E arg \in NumLinesArgs :
        IF last_pattern_params = << >>
        THEN kl_exc' = ParamsError /\ kl_pc' = "done" /\ UNCHANGED responded
        ELSE IF (IF arg = << >> THEN last_pattern_params.num_lines ELSE arg[1]) <= 0
        THEN kl_exc' = NumLinesError /\ kl_pc' = "done" /\ UNCHANGED responded
        ELSE /\ responded' = <<MovedText, CameraText>>
             /\ kl_exc' = << >>
             /\ kl_pc' = "launch"
    /\ UNCHANGED <<entry, laVars, rrVars, hostVars, fd_registered, last_pattern_params, pattern, proc,
                   returncode, unwritten, pipe, read_log, proc_fd, partial_output,
                   full_output, pauses, complete, best_line, gcode_run>>

----------------------------------------------------------------------------
(* The Klipper module's runs *)

\* SET_PRESSURE_ADVANCE_CAMERA, after the pattern of the configuration was drawn,
\* has moved the head and is about to start the script
InitKlipper ==
    \E script \in Scripts :
        /\ entry = "klipper"
        /\ kl_pc = "launch"
        /\ proc = "none"
        /\ returncode = << >>
        /\ unwritten = script
        /\ pipe = << >>
        /\ read_log = << >>
        /\ proc_fd = << >>
        /\ fd_registered = FALSE
        /\ partial_output = << >>
        /\ full_output = << >>
        /\ responded = <<MovedText, CameraText>>
        /\ pauses = 0
        /\ complete = FALSE
        /\ best_line = << >>
        /\ gcode_run = << >>
        /\ last_pattern_params = SavedParams(DefaultPaStart, DefaultPaEnd, DefaultPaStep)
        /\ pattern = LinesDrawn(DefaultPaStart, DefaultPaStep,
                                NumLines(DefaultPaStart, DefaultPaEnd, DefaultPaStep))
        /\ kl_exc = << >>
        /\ IdleLineAnalyzer
        /\ IdleRetrieveRect
        /\ NoCaller
        /\ numpy_int0 = TRUE

NextKlipper ==
    \/ Launch
    \/ LoopTest
    \/ ProcessOutput
    \/ Poll
    \/ CleanUp
    \/ ParseOutput
    \/ ProcWrite
    \/ ProcExit

SpecKlipper == InitKlipper /\ [][NextKlipper]_vars

\* a new PressureAdvanceCamera object, a pattern asked for, then the analysis
InitPattern ==
    \E script \in Scripts :
        /\ entry = "klipper"
        /\ kl_pc = "draw"
        /\ proc = "none"
        /\ returncode = << >>
        /\ unwritten = script
        /\ pipe = << >>
        /\ read_log = << >>
        /\ proc_fd = << >>
        /\ fd_registered = FALSE
        /\ partial_output = << >>
        /\ full_output = << >>
        /\ responded = << >>
        /\ pauses = 0
        /\ complete = FALSE
        /\ best_line = << >>
        /\ gcode_run = << >>
        /\ last_pattern_params = << >>
        /\ pattern = << >>
        /\ kl_exc = << >>
        /\ IdleLineAnalyzer
        /\ IdleRetrieveRect
        /\ NoCaller
        /\ numpy_int0 = TRUE

NextPattern ==
    \/ DrawPattern
    \/ StartCamera
    \/ NextKlipper

SpecPattern == InitPattern /\ [][NextPattern]_vars

----------------------------------------------------------------------------
(* Claims *)

Thickness(i) == lines[i][2]
S1(i) == lines[i][3]
S2(i) == lines[i][4]
ZeroColumns(t) == {x \in 1..Len(t) : t[x] = 0}

\* (S2, line number) of a ranked record precedes that of another
RankedBefore(a, b) == a[3] < b[3] \/ (a[3] = b[3] /\ a[1] < b[1])

(* C1: get_smoothest_lines(top) returns the first `top` lines in ascending S2, *)
(* equal S2 in ascending line index, each record being (index + 1, S1, S2) of  *)
(* that same line.                                                             *)
C1_Ranking ==
    top # -1 =>
        LET n == Len(lines)
            m == Len(smoothest)
            listed == {smoothest[k][1] : k \in 1..m}
        IN /\ m = Min(top, n)
           /\ \A k \in 1..m :
                /\ smoothest[k][1] \in 1..n
                /\ smoothest[k][2] = S1(smoothest[k][1])
                /\ smoothest[k][3] = S2(smoothest[k][1])
           /\ \A k \in 1..(m - 1) : RankedBefore(smoothest[k], smoothest[k + 1])
           /\ \A j \in (1..n) \ listed :
                \A k \in 1..m : RankedBefore(smoothest[k], <<j, S1(j), S2(j)>>)

\* two lines, the second with the smaller S2, and top = 1 cuts the first away
C1_Witness ==
    /\ top = 1
    /\ Len(lines) = 2
    /\ S2(2) < S2(1)
    /\ smoothest = << <<2, S1(2), S2(2)>> >>

\* the input has a transparency channel
HasAlpha(shape) == Len(shape) = 3 /\ shape[3] = 4

\* an image with colour channels and no transparency channel
ColourOnly(shape) == Len(shape) = 3 /\ shape[3] # 4

PastCheck == rr_pc \in {"raised", "order", "perspective", "done"}

(* C3: when no contour is larger than the minimum area, process_image raises   *)
(* the geometry error; it never goes on with a corner set that is not 4 points; *)
(* the geometry error is raised only for an image with a transparency channel   *)
(* and differs from the error of a missing channel; whenever process_image      *)
(* raises, no image is returned.                                                *)
C3_GeometryError ==
    /\ (entry = "RetrieveRect" /\ PastCheck /\ HasAlpha(rr_image)
            /\ \A k \in 1..Len(rr_contours) : rr_contours[k].area <= MinArea)
        => /\ rr_pc = "raised"
           /\ rr_exc = <<"ValueError", "Could not detect exactly 4 corners of rectangle">>
    /\ rr_pc \in {"order", "perspective", "done"} => Len(corners) = 4
    /\ (rr_pc = "check" /\ Len(corners) # 4) => ENABLED (RrCheckCorners /\ rr_exc' = GeometryError)
    /\ rr_exc = GeometryError => HasAlpha(rr_image) /\ rr_exc # AlphaError
    /\ ~HasAlpha(rr_image) => rr_exc # GeometryError
    /\ rr_pc = "raised" => rr_exc # << >> /\ ordered_corners = << >> /\ corrected_img = << >>

\* contours were found, but none large enough
C3_Witness ==
    /\ rr_pc = "raised"
    /\ Len(rr_contours) = 2
    /\ rr_exc = GeometryError

\* _group_contours_into_lines has returned
PastGrouping == pc \in {"thickness", "regions", "metrics", "ready"}

(* C4: when no contour survives the min_blob_area filter, the LineAnalyzer     *)
(* raises: it never gets past grouping with an empty contour list.             *)
C4_EmptyInputRaises == PastGrouping => contours # << >>

\* the contours of line i (1-based)
Members(i) == {lines[i][1][j] : j \in 1..Len(lines[i][1])}

\* vertical centroids more / less than 2% of the cropped height apart
FarApart(a, b) == 100 * Abs(Cy2(a) - Cy2(b)) > 2 * 2 * image[1]
CloseBy(a, b) == 100 * Abs(Cy2(a) - Cy2(b)) < 2 * 2 * image[1]

(* C7: contours whose centroids are pairwise more than 2% of the cropped       *)
(* height apart give one line each; two contours less than 2% apart are in the *)
(* same line.                                                                  *)
C7_Grouping ==
    (PastGrouping /\ contours # << >>) =>
        /\ (\A j, k \in 1..Len(contours) : j # k => FarApart(contours[j], contours[k]))
            => /\ Len(lines) = Len(contours)
               /\ \A k \in 1..Len(contours) :
                    \E i \in 1..Len(lines) : lines[i][1] = <<contours[k]>>
        /\ \A j, k \in 1..Len(contours) :
            CloseBy(contours[j], contours[k])
                => \E i \in 1..Len(lines) : {contours[j], contours[k]} \subseteq Members(i)

\* two blobs of positive area, 3 rows apart in an image 50 rows high
C7_Witness ==
    /\ PastGrouping
    /\ image[1] = 50
    /\ Len(contours) = 2
    /\ M00(contours[1]) > 0 /\ M00(contours[2]) > 0
    /\ Abs(Cy2(contours[1]) - Cy2(contours[2])) = 6
    /\ Len(lines) = 2

\* _compute_thickness_profiles has returned
PastProfiling == pc \in {"regions", "metrics", "ready"}

\* the foreground rows of line i in the 0-based column x
ForegroundRows(i, x) == {p[2] : p \in {q \in UNION Members(i) : q[1] = x}}

(* C8: thickness[x] is (max - min + 1) of the foreground rows of the line in   *)
(* column x, 0 for a column without foreground; a line that is one solid       *)
(* rectangle of height h has h inside its columns and 0 outside.               *)
C8_Thickness ==
    PastProfiling =>
        \A i \in 1..Len(lines) :
            /\ Len(lines[i][2]) = mask[2]
            /\ \A x \in 0..(mask[2] - 1) :
                LET rows == ForegroundRows(i, x)
                    t == lines[i][2][x + 1]
                IN /\ rows = {} => t = 0
                   /\ rows # {} =>
                        \E lo, hi \in rows :
                            /\ \A y \in rows : lo <= y /\ y <= hi
                            /\ t = hi - lo + 1
            /\ \A x0, x1 \in 0..(mask[2] - 1), y0, y1 \in 0..MaxRow :
                (x0 <= x1 /\ y0 <= y1 /\ lines[i][1] = <<Rect(x0, x1, y0, y1)>>)
                    => lines[i][2] =
                        [x \in 1..mask[2] |-> IF x - 1 \in x0..x1 THEN y1 - y0 + 1 ELSE 0]

\* a line of two blobs, one above the other with a free row between
C8_Witness ==
    /\ PastProfiling
    /\ \E i \in 1..Len(lines) :
        /\ lines[i][1] = <<Rect(0, 1, 0, 1), Rect(0, 0, 3, 4)>>
        /\ lines[i][2] = <<5, 2>>

InScenario ==
    /\ top = DefaultTop
    /\ gap_penalty = 1000
    /\ [i \in 1..Len(lines) |-> Thickness(i)] = Scenario

(* C10, as amended: in the worked example line 1 has S1 = 0, line 2 has        *)
(* S1 = 1000, line 3 has S1 = stddev([5,6,5,4,5]) = sqrt(0.4), about 0.632,    *)
(* and the ranking is line 1, line 3, line 2.                                  *)
C10_Scenario ==
    InScenario =>
        /\ S1(1) = 0
        /\ S1(2) = 1000000
        /\ S1(3) = 632
        /\ [k \in 1..Len(smoothest) |-> smoothest[k][1]] = <<1, 3, 2>>

C10_Witness == InScenario /\ Len(smoothest) = 3

(* C10 as stated: the same, with S1 of line 3 about 0.75 (within 0.05).        *)
C10_Original ==
    InScenario =>
        /\ S1(1) = 0
        /\ S1(2) = 1000000
        /\ S1(3) \in 700..800
        /\ [k \in 1..Len(smoothest) |-> smoothest[k][1]] = <<1, 3, 2>>

SqDist(a, b) == (a[1] - b[1]) * (a[1] - b[1]) + (a[2] - b[2]) * (a[2] - b[2])

\* d = floor(Euclidean distance of a and b)
IsFloorDist(d, a, b) == d * d <= SqDist(a, b) /\ SqDist(a, b) < (d + 1) * (d + 1)

(* C5: the rectified image is max(floor |TL TR|, floor |BL BR|) wide and       *)
(* max(floor |TL BL|, floor |TR BR|) high.                                     *)
C5_RectifiedSize ==
    rr_pc = "done" =>
        LET TL == ordered_corners[1]
            TR == ordered_corners[2]
            BR == ordered_corners[3]
            BL == ordered_corners[4]
        IN \E wa, wb, ha, hb \in 0..(2 * MaxCoord) :
            /\ IsFloorDist(wa, TL, TR) /\ IsFloorDist(wb, BL, BR)
            /\ IsFloorDist(ha, TL, BL) /\ IsFloorDist(hb, TR, BR)
            /\ corrected_img[2] = (IF wa > wb THEN wa ELSE wb)
            /\ corrected_img[1] = (IF ha > hb THEN ha ELSE hb)

\* the top edge is 1 long, the bottom edge sqrt(5): the image is 2 wide
C5_Witness ==
    /\ rr_pc = "done"
    /\ SqDist(ordered_corners[1], ordered_corners[2]) = 1
    /\ SqDist(ordered_corners[4], ordered_corners[3]) = 5
    /\ corrected_img[2] = 2

(* C6: _order_corners returns the same sequence for every order in which the   *)
(* 4 points are supplied: a permutation of them, the two smallest-y points     *)
(* first by x ascending, then the two largest-y points as (bottom-right,       *)
(* bottom-left) with bottom-left.x <= bottom-right.x.                          *)
C6_Canonical ==
    rr_pc \in {"perspective", "done"} =>
        /\ \A p \in Perms(4) : OrderCorners([i \in 1..4 |-> corners[p[i]]]) = ordered_corners
        /\ {ordered_corners[i] : i \in 1..4} = {corners[i] : i \in 1..4}
        /\ \A i \in {1, 2}, j \in {3, 4} : ordered_corners[i][2] <= ordered_corners[j][2]
        /\ ordered_corners[1][1] <= ordered_corners[2][1]
        /\ ordered_corners[4][1] <= ordered_corners[3][1]

\* the ranking of the second run is on the table
SecondDone == run = 2 /\ Finished

C12_CroppedWidth ==
    PastProfiling => \A i \in 1..Len(lines) : Len(lines[i][2]) = image_arg[2] - 100

\* an image 102 columns wide gives a line a profile of 2 columns
C12_Witness ==
    /\ PastProfiling
    /\ image_arg[2] = 102
    /\ Len(lines) = 2
    /\ Len(lines[1][2]) = 2

(* C12 as stated: the thickness array is as long as the image given to the     *)
(* LineAnalyzer is wide.                                                       *)
C12_Original ==
    PastProfiling => \A i \in 1..Len(lines) : Len(lines[i][2]) = image_arg[2]

\* _detect_corners has been called and is over
PastDetect == rr_pc \in {"check", "raised", "order", "perspective", "done"}

\* the contours larger than the minimum area, the first of the largest ahead
LargestValid ==
    LET valid == {k \in 1..Len(rr_contours) : rr_contours[k].area > MinArea}
    IN CHOOSE k \in valid :
        \A j \in valid : \/ rr_contours[j].area < rr_contours[k].area
                          \/ (rr_contours[j].area = rr_contours[k].area /\ k <= j)

(* C13: once a contour larger than the minimum area exists, _detect_corners    *)
(* returns 4 points: the polygon of the first tolerance that gave 4 vertices,  *)
(* no later tolerance being tried, or, when none of the six tolerances gave 4  *)
(* vertices, the corners of the minimum-area rectangle.                        *)
C13_FourCorners ==
    (PastDetect /\ HasAlpha(rr_image)
        /\ \E k \in 1..Len(rr_contours) : rr_contours[k].area > MinArea)
    => LET c == rr_contours[LargestValid]
           n == Len(rr_tried)
       IN /\ Len(corners) = 4
          /\ n \in 1..6
          /\ \A k \in 1..(n - 1) : rr_tried[k] # 4
          /\ rr_tried[n] = 4 => corners = c.quad
          /\ rr_tried[n] # 4 => n = 6 /\ corners = c.box

\* _determine_problematic_regions has returned
PastRegions == pc \in {"metrics", "ready"}

\* the two halves [lo, hi) of the cropped width, those with a column, left first
Halves ==
    LET w == mask[2]
    IN SelectSeq(<< <<0, w \div 2>>, <<w \div 2, w>> >>, LAMBDA h : h[1] < h[2])

\* n^2 times the population variance of the thickness of all lines in the
\* 0-based column x: for one set of lines it orders columns as their deviation does
Spread(x) ==
    LET n == Len(lines)
        v == [i \in 1..n |-> Thickness(i)[x + 1]]
    IN n * SumSeq([i \in 1..n |-> v[i] * v[i]]) - SumSeq(v) * SumSeq(v)

\* the leftmost column of the half h with the greatest deviation
IsPeak(p, h) ==
    /\ p \in h[1]..(h[2] - 1)
    /\ \A x \in h[1]..(h[2] - 1) : Spread(x) <= Spread(p)
    /\ \A x \in h[1]..(p - 1) : Spread(x) < Spread(p)

\* the region is the half's peak widened by a tenth of the width, clipped to the half
IsRegionOf(r, h) ==
    \E p \in h[1]..(h[2] - 1) :
        /\ IsPeak(p, h)
        /\ r[1] = (IF p - mask[2] \div 10 > h[1] THEN p - mask[2] \div 10 ELSE h[1])
        /\ r[2] = (IF p + mask[2] \div 10 < h[2] THEN p + mask[2] \div 10 ELSE h[2])

(* C14: with at least one line, every half that has a column gets exactly one  *)
(* region, around the leftmost column of greatest deviation in that half;      *)
(* without lines no region is emitted.                                         *)
C14_PeakPerHalf ==
    PastRegions =>
        IF Len(lines) = 0
        THEN problematic_regions = << >>
        ELSE /\ Len(problematic_regions) = Len(Halves)
             /\ \A k \in 1..Len(Halves) : IsRegionOf(problematic_regions[k], Halves[k])

\* every half has a column in which the lines differ
DeviationInEveryHalf ==
    \A k \in 1..Len(Halves) : \E x \in Halves[k][1]..(Halves[k][2] - 1) : Spread(x) > 0

\* the region r lies around a column of greatest deviation of the half h and
\* inside the half's bounds
FitsHalf(r, h) ==
    LET radius == mask[2] \div 10
    IN \E p \in h[1]..(h[2] - 1) :
        /\ \A x \in h[1]..(h[2] - 1) : Spread(x) <= Spread(p)
        /\ h[1] <= r[1] /\ r[1] <= p /\ p <= r[2] /\ r[2] <= h[2]
        /\ r[1] = (IF p - radius > h[1] THEN p - radius ELSE h[1])
        /\ r[2] = (IF p + radius < h[2] THEN p + radius ELSE h[2])

(* C15: there are at most 2 regions, each belongs to a half of its own, and    *)
(* with that half [lo, hi) and its peak p the region (start, end) has          *)
(* lo <= start <= p <= end <= hi, start = max(lo, p - radius),                 *)
(* end = min(hi, p + radius), radius = floor(width / 10).                      *)
C15_RegionBounds ==
    PastRegions =>
        /\ Len(problematic_regions) <= 2
        /\ \E own \in [1..Len(problematic_regions) -> 1..Len(Halves)] :
            /\ \A j, k \in 1..Len(problematic_regions) : j # k => own[j] # own[k]
            /\ \A k \in 1..Len(problematic_regions) :
                    FitsHalf(problematic_regions[k], Halves[own[k]])

\* width 10: the left region ends at the left half's bound, the right one starts at it
C15_Witness ==
    /\ PastRegions
    /\ mask[2] = 10
    /\ problematic_regions = << <<3, 5>>, <<5, 6>> >>

\* _compute_smoothness_metrics has returned
PastMetrics == pc = "ready"

\* the half a region was emitted for: the one its start lies in
OwnHalf(r) == CHOOSE k \in 1..Len(Halves) : Halves[k][1] <= r[1] /\ r[1] < Halves[k][2]

\* the term of region r in S2 of line i, read from the columns start..end of the
\* region that lie inside its own half
OwnTerm(i, r) ==
    LET h == Halves[OwnHalf(r)]
        last == IF r[2] < h[2] THEN r[2] ELSE h[2] - 1
        section == SubSeq(Thickness(i), r[1] + 1, last + 1)
        nonzero == SelectSeq(section, LAMBDA v : v # 0)
    IN (IF nonzero = << >> THEN 0 ELSE Std(nonzero))
        + gap_penalty * 1000 * Cardinality(ZeroColumns(section))

(* C16: S2 of a line is the sum of the region terms, each read from columns of *)
(* the region's own half only, so that a line with a single zero-thickness     *)
(* column has the gap penalty in its S2 at most once.                          *)
C16_RegionTerms ==
    PastMetrics =>
        \A i \in 1..Len(lines) :
            /\ S2(i) = SumSeq([k \in 1..Len(problematic_regions) |->
                                  OwnTerm(i, problematic_regions[k])])
            /\ Cardinality(ZeroColumns(Thickness(i))) = 1 => S2(i) < 2 * gap_penalty * 1000

\* no region ends on its half's upper bound
NoRegionAtBound ==
    \A k \in 1..Len(problematic_regions) :
        problematic_regions[k][2] < Halves[OwnHalf(problematic_regions[k])][2]

\* s is floor(1000 * sigma) for the population standard deviation sigma of the
\* values v:  sigma^2 = (n * sum(v^2) - sum(v)^2) / n^2
IsStdOf(s, v) ==
    LET n == Len(v)
        d == n * SumSeq([k \in 1..n |-> v[k] * v[k]]) - SumSeq(v) * SumSeq(v)
    IN /\ s >= 0
       /\ s * s * n * n <= 1000000 * d
       /\ 1000000 * d < (s + 1) * (s + 1) * n * n

NonZero(t) == SelectSeq(t, LAMBDA v : v # 0)

(* C17: S1 of a thickness array is the population standard deviation of its    *)
(* nonzero values plus gap_penalty for every zero value; with fewer than two   *)
(* nonzero values the deviation term is 0, and no error is raised.             *)
C17_S1 ==
    PastMetrics =>
        /\ exc = << >>
        /\ \A i \in 1..Len(lines) :
            LET t == Thickness(i)
                dev == S1(i) - gap_penalty * 1000 * Cardinality(ZeroColumns(t))
            IN IF Len(NonZero(t)) < 2 THEN dev = 0 ELSE IsStdOf(dev, NonZero(t))

\* nonzero values 4, 6, 5: sigma = sqrt(2/3) = 0.8164..., and one gap
C17_Witness ==
    /\ PastMetrics
    /\ gap_penalty = DefaultGapPenalty
    /\ Len(lines) = 1
    /\ Thickness(1) = <<4, 0, 6, 5>>
    /\ S1(1) = 816 + DefaultGapPenalty * 1000

\* line 29 of process_image has run
PastMask == entry = "RetrieveRect" /\ rr_pc = "detect"

Alpha(pixel) == pixel[4]

(* C18: a pixel is foreground in the mask built by process_image, before the   *)
(* cleaning, if and only if its alpha value is greater than 0.                 *)
C18_MaskIsAlpha ==
    PastMask =>
        \A k \in 1..Len(rr_pixels) : (rr_mask[k] # 0) <=> (Alpha(rr_pixels[k]) > 0)

\* every opaque or half-transparent pixel is foreground
VisibleIsForeground ==
    PastMask =>
        \A k \in 1..Len(rr_pixels) : (Alpha(rr_pixels[k]) > 0) => (rr_mask[k] # 0)

(* C19: the lines are ordered bottom-up: line 0 holds a contour of greatest     *)
(* vertical centroid, no contour of a line lies lower than a contour of a line *)
(* before it, and every surviving contour is in exactly one line.              *)
C19_BottomUp ==
    (entry = "LineAnalyzer" /\ PastGrouping) =>
        /\ contours # << >> =>
                \E a \in Members(1) : \A k \in 1..Len(contours) : Cy2(a) >= Cy2(contours[k])
        /\ \A i, j \in 1..Len(lines) :
                i < j => \A a \in Members(i), b \in Members(j) : Cy2(a) >= Cy2(b)
        /\ \A k \in 1..Len(contours) :
                Cardinality({ij \in (1..Len(lines)) \X (1..Len(contours)) :
                                /\ ij[2] <= Len(lines[ij[1]][1])
                                /\ lines[ij[1]][1][ij[2]] = contours[k]}) = 1
        /\ \A i \in 1..Len(lines) : Members(i) \subseteq {contours[k] : k \in 1..Len(contours)}

\* two lines, the lower blob first
C19_Witness ==
    /\ entry = "LineAnalyzer"
    /\ PastGrouping
    /\ Len(lines) = 2
    /\ Cy2(lines[1][1][1]) > Cy2(lines[2][1][1])
    /\ Cy2(contours[1]) < Cy2(contours[2])

\* the subprocess's whole output
Printed == read_log \o pipe \o unwritten

(* C20: full_output is the concatenation of the data read from the subprocess, *)
(* in read order, and the number parsed from it is the line number the         *)
(* subprocess printed.                                                         *)
C20_FullOutput ==
    entry = "klipper" =>
        /\ kl_pc \in {"loop", "paused", "cleanup", "parse", "done"} => full_output = read_log
        /\ (kl_pc = "done" /\ best_line # << >> /\ read_log = Printed)
                => best_line = <<IntOf(Search(Printed))>>

\* nothing is lost: the data read is what is left of full_output when the
\* repeated texts are taken out
EveryReadIsKept ==
    (entry = "klipper" /\ kl_pc # "launch") => Len(full_output) >= Len(read_log)

\* SET_PRESSURE_ADVANCE_CAMERA has reported a line of the pattern drawn last
ReportedLine ==
    /\ entry = "klipper"
    /\ kl_pc = "done"
    /\ best_line # << >>
    /\ best_line[1] \in 1..Len(pattern)

(* C21: when SET_PRESSURE_ADVANCE_CAMERA reports best line k of the pattern     *)
(* drawn before it, the pressure advance it applies is the value that was set  *)
(* for the k-th line of that pattern.                                          *)
C21_AppliedIsDrawn ==
    ReportedLine => gcode_run = << <<"SET_PRESSURE_ADVANCE", pattern[best_line[1]]>> >>

\* PA_STEP divides PA_END - PA_START: the last line is drawn with PA_END
StepFitsRange ==
    last_pattern_params # << >>
        => pattern[Len(pattern)] = last_pattern_params.pa_end

\* the subprocess printed a best line and was seen to exit with code 0 in time
GoodRun ==
    /\ entry = "klipper"
    /\ complete
    /\ returncode = <<0>>
    /\ Search(Printed) # << >>

(* C22: when the subprocess has printed `Best line: N` and was seen to exit    *)
(* with code 0 before the timeout, the command has read all of that output     *)
(* before it parses full_output, and it issues SET_PRESSURE_ADVANCE for line N. *)
C22_ReadBeforeParse ==
    /\ (GoodRun /\ kl_pc = "parse") => read_log = Printed
    /\ (GoodRun /\ kl_pc = "done")
            => /\ best_line = <<IntOf(Search(Printed))>>
               /\ Len(gcode_run) = 1

\* what is lost is what the pipe still held when the loop was left
UnreadStaysInPipe ==
    (GoodRun /\ kl_pc \in {"parse", "done"}) => (Printed = read_log \o pipe /\ unwritten = << >>)

\* a SET_PRESSURE_ADVANCE was issued by the command
Issued == gcode_run # << >>

TimeoutSeen ==
    entry = "klipper" /\ kl_pc = "done" /\ proc = "terminated" /\ pauses = MaxPauses

\* what the command has passed to respond_info before the first read
Prelude == <<MovedText, CameraText, RunningText>>

\* the tokens of the subprocess's output
OutputTokens == {"Best line:", " ", "\n", "x"} \cup Digits

\* the texts of the subprocess's output among those passed to respond_info since
AfterPrelude == SubSeq(responded, Len(Prelude) + 1, Len(responded))
OutputTexts == SelectSeq(AfterPrelude, LAMBDA t : t[1] \in OutputTokens)

RECURSIVE Concat(_)
Concat(texts) == IF texts = << >> THEN << >> ELSE Head(texts) \o Concat(Tail(texts))

FlushSeen ==
    /\ entry = "klipper"
    /\ kl_pc = "done"
    /\ best_line = << >>
    /\ \E i \in 1..Len(OutputTexts) : OutputTexts[i][Len(OutputTexts[i])] # "\n"

====
